---------------------------- MODULE Spec2Model ----------------------------
(***************************************************************************)
(* A model of class Apriori (src/apriori.py): the level-wise search for    *)
(* frequent itemsets and the derivation of association rules.              *)
(*                                                                         *)
(* Representation.                                                         *)
(*  - An itemset (frozenset) is a set of items; a basket is a set of items.*)
(*  - A Python list whose order the program never relies on (a level of    *)
(*    freq_list, a level of conseq_dict[F], rule_list) is kept modulo      *)
(*    permutation: a duplicate-free list as a set, a list that may repeat  *)
(*    elements as a bag (element -> number of occurrences).  The index     *)
(*    pairs i < j of a double loop over such a list are then the unordered *)
(*    pairs of positions, counted with multiplicity.                       *)
(*  - A Python float is an IEEE-754 binary64 number: a 53-bit mantissa     *)
(*    held in two 27-bit limbs and a binary exponent.  Division rounds to  *)
(*    nearest, ties to even, as the hardware does.                         *)
(***************************************************************************)
EXTENDS Integers, Sequences, FiniteSets, Bags, TLC

(***************************************************************************)
(* Bounds of the model.                                                    *)
(***************************************************************************)
NItems == 3
MaxBaskets == 2
MaxCalls == 2
\* Counts up to this one have their quotients tabulated.
MaxCached == 5

(***************************************************************************)
(* binary64 arithmetic.  value = (hi * 2^27 + lo) * 2^e with the mantissa  *)
(* hi * 2^27 + lo in [2^52, 2^53); zero is the record of three zeros.      *)
(* Only non-negative numbers occur: counts, their quotients, thresholds.   *)
(***************************************************************************)
Limb == 134217728
MantHi == 33554432

FZero == [e |-> 0, hi |-> 0, lo |-> 0]

IsZero(x) == x.hi = 0 /\ x.lo = 0

Dbl(m) == [hi |-> 2 * m.hi + ((2 * m.lo) \div Limb), lo |-> (2 * m.lo) % Limb]

MGe(a, b) == a.hi > b.hi \/ (a.hi = b.hi /\ a.lo >= b.lo)

MSub(a, b) ==
    IF a.lo >= b.lo THEN [hi |-> a.hi - b.hi, lo |-> a.lo - b.lo]
    ELSE [hi |-> a.hi - b.hi - 1, lo |-> a.lo + Limb - b.lo]

Mant(x) == [hi |-> x.hi, lo |-> x.lo]

\* Number of binary digits of a positive int below 2^26.
BitLength(c) == CHOOSE n \in 1..26 : 2^(n - 1) <= c /\ c < 2^n

\* int -> float, exact for the small counts that occur (below 2^26).
FromInt(c) ==
    IF c = 0 THEN FZero
    ELSE [e |-> BitLength(c) - 53, hi |-> c * 2^(26 - BitLength(c)), lo |-> 0]

\* m * 2^n for 0 <= n <= 27.
ShiftLeft(m, n) ==
    [hi |-> m.hi * 2^n + (m.lo \div 2^(27 - n)), lo |-> (m.lo % 2^(27 - n)) * 2^n]

\* One quotient bit by shift and subtract: s.q the bits so far, s.r the
\* running remainder (already doubled), d the divisor.
DivStep(s, d) ==
    IF MGe(s.r, d)
    THEN [q |-> [hi |-> Dbl(s.q).hi, lo |-> Dbl(s.q).lo + 1], r |-> Dbl(MSub(s.r, d))]
    ELSE [q |-> Dbl(s.q), r |-> Dbl(s.r)]

\* nbits quotient bits, splitting the run in two halves; once the remainder
\* is zero the remaining bits are zeros.
RECURSIVE DivIter(_, _, _)
DivRest(s, d, nbits) ==
    IF IsZero(s.r) THEN [q |-> ShiftLeft(s.q, nbits), r |-> s.r]
    ELSE DivIter(s, d, nbits)

DivIter(s, d, nbits) ==
    IF nbits = 1 THEN DivStep(s, d)
    ELSE DivRest(DivIter(s, d, nbits \div 2), d, nbits - (nbits \div 2))

\* The 53-bit truncated quotient of r / d for d <= r < 2d, with twice the
\* remainder left in .r.
LongDiv(r, d) == DivIter([q |-> [hi |-> 0, lo |-> 0], r |-> r], d, 53)

\* Round to nearest, ties to even, from the truncated quotient and remainder.
RoundUp(qr, d) == IF qr.r = d THEN qr.q.lo % 2 = 1 ELSE MGe(qr.r, d)

RoundQuot(qr, d, e) ==
    IF ~RoundUp(qr, d) THEN [e |-> e, hi |-> qr.q.hi, lo |-> qr.q.lo]
    ELSE IF qr.q.lo + 1 < Limb THEN [e |-> e, hi |-> qr.q.hi, lo |-> qr.q.lo + 1]
    ELSE IF qr.q.hi + 1 < 2 * MantHi THEN [e |-> e, hi |-> qr.q.hi + 1, lo |-> 0]
    ELSE [e |-> e + 1, hi |-> MantHi, lo |-> 0]

\* float / float for a non-zero divisor, digit by digit.
SlowDiv(x, y) ==
    IF IsZero(x) THEN FZero
    ELSE IF MGe(Mant(x), Mant(y))
         THEN RoundQuot(LongDiv(Mant(x), Mant(y)), Mant(y), x.e - y.e - 52)
         ELSE RoundQuot(LongDiv(Dbl(Mant(x)), Mant(y)), Mant(y), x.e - y.e - 53)

\* The quotients of small counts and the quotients of those, computed once.
Ratios == [a \in 0..MaxCached, b \in 1..MaxCached |-> SlowDiv(FromInt(a), FromInt(b))]

RatioValues == {Ratios[ab] : ab \in DOMAIN Ratios}

Quotients == [x \in RatioValues, y \in RatioValues \ {FZero} |-> SlowDiv(x, y)]

\* float / float for a non-zero divisor (the caller raises on zero).
FDiv(x, y) == IF <<x, y>> \in DOMAIN Quotients THEN Quotients[x, y] ELSE SlowDiv(x, y)

\* int / int (true division) for a non-zero divisor.
TrueDiv(a, b) ==
    IF <<a, b>> \in DOMAIN Ratios THEN Ratios[a, b] ELSE SlowDiv(FromInt(a), FromInt(b))

\* x >= y on non-negative floats.
FGe(x, y) ==
    IF IsZero(y) THEN TRUE
    ELSE IF IsZero(x) THEN FALSE
    ELSE x.e > y.e \/ (x.e = y.e /\ MGe(Mant(x), Mant(y)))

(***************************************************************************)
(* Inputs of the constructor.                                              *)
(***************************************************************************)
Items == 1..NItems

RECURSIVE Code(_)
Code(S) == IF S = {} THEN 0
           ELSE LET x == CHOOSE y \in S : TRUE IN 2^(x - 1) + Code(S \ {x})

\* The number of baskets of the list that hold the item.
Occurrences(b, item) == Cardinality({n \in 1..Len(b) : item \in b[n]})

\* Lists of at most maxlen baskets over the given items.  Counting a
\* candidate is a sum over the baskets and items are opaque identifiers, so
\* one list is drawn per multiset of baskets and per renaming of the items:
\* the baskets in the order of their codes, the items from the most to the
\* least frequent.
BasketLists(items, maxlen) ==
    UNION {{b \in [1..n -> SUBSET items] :
               /\ \A j \in 1..(n - 1) : Code(b[j]) <= Code(b[j + 1])
               /\ \A x \in items : (x + 1) \in items =>
                      Occurrences(b, x) >= Occurrences(b, x + 1)} : n \in 0..maxlen}

\* Thresholds as the caller writes them, p/q, including values outside (0, 1].
SuppArgs == {<<0, 1>>, <<1, 2>>, <<2, 3>>, <<3, 2>>}
ConfArgs == {<<0, 1>>, <<1, 2>>, <<1, 1>>}

VARIABLES baskets, n_baskets, min_supp, min_conf,
          cand_list, freq_list, supp_dict, conseq_dict, rule_list,
          pc, k, i, todo, freq, calls, fault

vars == <<baskets, n_baskets, min_supp, min_conf,
          cand_list, freq_list, supp_dict, conseq_dict, rule_list,
          pc, k, i, todo, freq, calls, fault>>

config == <<baskets, n_baskets, min_supp, min_conf>>
control == <<pc, k, i, todo, freq, calls, fault>>

EmptyDict == [x \in {} |-> 0]

\* Apriori.__init__
Construct(b, ms, mc) ==
    /\ baskets = b
    /\ n_baskets = Len(b)
    /\ min_supp = ms
    /\ min_conf = mc
    /\ cand_list = <<>>
    /\ freq_list = <<>>
    /\ supp_dict = EmptyDict
    /\ conseq_dict = EmptyDict
    /\ rule_list = EmptyBag
    /\ pc = "idle" /\ k = 0 /\ i = 0 /\ todo = {} /\ freq = {}
    /\ calls = 0 /\ fault = "none"

Init ==
    \E b \in BasketLists(Items, MaxBaskets), s \in SuppArgs, c \in ConfArgs :
        Construct(b, TrueDiv(s[1], s[2]), TrueDiv(c[1], c[2]))

(***************************************************************************)
(* gen_cands                                                               *)
(***************************************************************************)
\* gen_cands with the size test of line 82 off by one.
gen_cands_offsize(kk) ==
    IF kk = 0
    THEN {{item} : item \in UNION {baskets[n] : n \in 1..Len(baskets)}}
    ELSE {c \in {freq_i \cup freq_j : freq_i \in freq_list[kk], freq_j \in freq_list[kk]} :
             Cardinality(c) = kk + 2}

\* The set cands built by gen_cands(kk); freq_list[kk] is Python's
\* freq_list[kk - 1].
gen_cands(kk) ==
    IF kk = 0
    THEN {{item} : item \in UNION {baskets[n] : n \in 1..Len(baskets)}}
    ELSE {c \in {freq_i \cup freq_j : freq_i \in freq_list[kk], freq_j \in freq_list[kk]} :
             Cardinality(c) = kk + 1}

AppendIf(list, level, nonempty) == IF nonempty THEN Append(list, level) ELSE list

(***************************************************************************)
(* gen_freqs                                                               *)
(***************************************************************************)
\* cand_cnt with a proper-subset test in place of issubset (line 99).
RECURSIVE cand_cnt_proper(_, _)
cand_cnt_proper(cand, n) ==
    IF n = 0 THEN 0
    ELSE cand_cnt_proper(cand, n - 1)
         + (IF cand \subseteq baskets[n] /\ cand # baskets[n] THEN 1 ELSE 0)

\* cand_cnt[cand] after the scan of the first n baskets.
RECURSIVE cand_cnt(_, _)
cand_cnt(cand, n) ==
    IF n = 0 THEN 0
    ELSE cand_cnt(cand, n - 1) + (IF cand \subseteq baskets[n] THEN 1 ELSE 0)

\* supp of every candidate of cand_list[kk] (Python's cand_list[kk - 1]).
supp_of(kk) ==
    [cand \in cand_list[kk] |-> TrueDiv(cand_cnt(cand, Len(baskets)), n_baskets)]

\* The list freqs built by gen_freqs: the candidates whose support meets
\* min_supp.
gen_freqs(supp) == {cand \in DOMAIN supp : FGe(supp[cand], min_supp)}

\* supp_dict after the supports of the kept candidates are stored.
Record(dict, supp, keys) ==
    [x \in (DOMAIN dict) \cup keys |-> IF x \in keys THEN supp[x] ELSE dict[x]]

(***************************************************************************)
(* check_rule and gen_conseqs                                              *)
(***************************************************************************)
\* The exception check_rule(f, conseq) raises, "none" if it raises none:
\* a key missing from supp_dict, or a zero antecedent support.
check_rule_error(f, conseq) ==
    IF f \notin DOMAIN supp_dict \/ (f \ conseq) \notin DOMAIN supp_dict THEN "KeyError"
    ELSE IF IsZero(supp_dict[f \ conseq]) THEN "ZeroDivisionError"
    ELSE "none"

\* conf of check_rule(f, conseq), for every conseq of the given set.
conf_of(f, conseqs) == [conseq \in conseqs |-> FDiv(supp_dict[f], supp_dict[f \ conseq])]

\* check_rule with the comparison of line 147 reversed.
check_rule_reversed(conf) == FGe(min_conf, conf)

\* The value check_rule returns.
check_rule(conf) == FGe(conf, min_conf)

\* The tuple check_rule appends to rule_list.
Rule(f, conseq, conf) == [ante |-> f \ conseq, conseq |-> conseq, conf |-> conf]

\* Positions of a list kept as a bag: <<element, occurrence number>>.
Positions(bag) == UNION {{<<x, n>> : n \in 1..bag[x]} : x \in DOMAIN bag}

\* Number of index pairs i < j of the list with list[i] | list[j] = u.
PairCount(bag, u) ==
    Cardinality({pq \in Positions(bag) \X Positions(bag) :
                    pq[1] # pq[2] /\ (pq[1][1] \cup pq[2][1]) = u}) \div 2

JoinBag(prev, unions) == [u \in unions |-> PairCount(prev, u)]

\* The consequences gen_conseqs(f, kk) passes to check_rule, each with the
\* number of times it does; conseq_dict[f][kk] is Python's
\* conseq_dict[f][kk - 1].
conseq_cands(f, kk) ==
    IF kk = 0 THEN [conseq \in {{item} : item \in f} |-> 1]
    ELSE JoinBag(conseq_dict[f][kk],
                 {u \in {a \cup b : a \in DOMAIN conseq_dict[f][kk],
                                    b \in DOMAIN conseq_dict[f][kk]} :
                     Cardinality(u) = kk + 1 /\ PairCount(conseq_dict[f][kk], u) > 0})

Restrict(bag, keys) == [x \in keys |-> bag[x]]

\* The rules appended for the kept consequences, with multiplicity.
RuleBag(f, conseqs, conf) ==
    [r \in {Rule(f, c, conf[c]) : c \in DOMAIN conseqs} |-> conseqs[r.conseq]]

(***************************************************************************)
(* apriori: one action per step of its loops                               *)
(***************************************************************************)
\* line 47
CandsExhausted(cl, kk) == Len(cl) < kk
\* line 50
FreqsExhausted(fl, kk) == Len(fl) < kk
\* line 53
LevelFreqs(idx) == IF idx > 0 THEN freq_list[idx + 1] ELSE {}
\* line 57 with <= for <
MoreConseqs_inclusive(kk, idx) == kk <= idx
\* line 57
MoreConseqs(kk, idx) == kk < idx
\* line 60 with <= for <
ConseqsExhausted_eager(levels, kk) == Len(levels) <= kk
\* line 60
ConseqsExhausted(levels, kk) == Len(levels) < kk

\* A call of apriori(): line 43.
Call ==
    /\ pc \in {"idle", "done"}
    /\ calls < MaxCalls
    /\ calls' = calls + 1
    /\ k' = 0 /\ i' = 0 /\ todo' = {} /\ freq' = {}
    /\ pc' = "gen_cands"
    /\ UNCHANGED <<config, cand_list, freq_list, supp_dict, conseq_dict, rule_list, fault>>

\* lines 45-48
GenCands ==
    /\ pc = "gen_cands"
    /\ cand_list' = AppendIf(cand_list, gen_cands(k), gen_cands(k) # {})
    /\ k' = k + 1
    /\ pc' = IF CandsExhausted(cand_list', k') THEN "for_level" ELSE "gen_freqs"
    /\ UNCHANGED <<config, freq_list, supp_dict, conseq_dict, rule_list,
                   i, todo, freq, calls, fault>>

\* lines 49-51
GenFreqsOn(supp, freqs) ==
    /\ freq_list' = AppendIf(freq_list, freqs, freqs # {})
    /\ supp_dict' = Record(supp_dict, supp, freqs)
    /\ pc' = IF FreqsExhausted(freq_list', k) THEN "for_level" ELSE "gen_cands"
    /\ fault' = fault

GenFreqs ==
    /\ pc = "gen_freqs"
    /\ IF n_baskets = 0
       THEN /\ pc' = "fault" /\ fault' = "ZeroDivisionError"
            /\ UNCHANGED <<freq_list, supp_dict>>
       ELSE GenFreqsOn(supp_of(k), gen_freqs(supp_of(k)))
    /\ UNCHANGED <<config, cand_list, conseq_dict, rule_list, k, i, todo, freq, calls>>

\* lines 52-53: the next level of freq_list, if any
ForLevel ==
    /\ pc = "for_level"
    /\ IF i < Len(freq_list)
       THEN todo' = LevelFreqs(i) /\ pc' = "for_freq"
       ELSE todo' = {} /\ pc' = "done"
    /\ UNCHANGED <<config, cand_list, freq_list, supp_dict, conseq_dict, rule_list,
                   k, i, freq, calls, fault>>

\* lines 54-57: the next itemset of the level, in the order of the list
ForFreq ==
    /\ pc = "for_freq"
    /\ IF todo = {}
       THEN /\ i' = i + 1 /\ pc' = "for_level"
            /\ UNCHANGED <<todo, freq, k, conseq_dict>>
       ELSE \E f \in todo :
            /\ freq' = f /\ todo' = todo \ {f}
            /\ k' = 0
            /\ conseq_dict' = [x \in (DOMAIN conseq_dict) \cup {f} |->
                                  IF x = f THEN <<>> ELSE conseq_dict[x]]
            /\ pc' = IF MoreConseqs(0, i) THEN "gen_conseqs" ELSE "for_freq"
            /\ i' = i
    /\ UNCHANGED <<config, cand_list, freq_list, supp_dict, rule_list, calls, fault>>

\* lines 58-61, no call of check_rule raising
GenConseqsOk(conseqs, conf) ==
    /\ rule_list' = rule_list (+) RuleBag(freq, conseqs, conf)
    /\ conseq_dict' = [conseq_dict EXCEPT
                          ![freq] = AppendIf(@, conseqs, DOMAIN conseqs # {})]
    /\ k' = k + 1
    /\ pc' = IF ConseqsExhausted(conseq_dict'[freq], k') THEN "for_freq"
             ELSE IF MoreConseqs(k', i) THEN "gen_conseqs" ELSE "for_freq"
    /\ fault' = fault

\* lines 58, 146: a call of check_rule raises; the rules whose consequences
\* came before it in the list are appended already.
GenConseqsRaise(bad, conseqs, conf) ==
    \E c \in bad, done \in SubBag(RuleBag(freq, conseqs, conf)) :
        /\ rule_list' = rule_list (+) done
        /\ fault' = check_rule_error(freq, c)
        /\ pc' = "fault"
        /\ UNCHANGED <<conseq_dict, k>>

\* cands: the consequences checked, bad: those on which check_rule raises,
\* conf: the confidence of the others.
GenConseqsOn(cands, bad, conf) ==
    IF bad = {}
    THEN GenConseqsOk(Restrict(cands, {c \in DOMAIN cands : check_rule(conf[c])}), conf)
    ELSE GenConseqsRaise(bad,
             Restrict(cands, {c \in DOMAIN conf : check_rule(conf[c])}), conf)

Raising(f, cands) == {c \in DOMAIN cands : check_rule_error(f, c) # "none"}

GenConseqsFor(cands) ==
    GenConseqsOn(cands, Raising(freq, cands),
                 conf_of(freq, (DOMAIN cands) \ Raising(freq, cands)))

GenConseqs ==
    /\ pc = "gen_conseqs"
    /\ GenConseqsFor(conseq_cands(freq, k))
    /\ UNCHANGED <<config, cand_list, freq_list, supp_dict, i, todo, freq, calls>>

Next == Call \/ GenCands \/ GenFreqs \/ ForLevel \/ ForFreq \/ GenConseqs

Spec == Init /\ [][Next]_vars

\* The interpreter runs a call to its end: every step of apriori() is taken.
Step == GenCands \/ GenFreqs \/ ForLevel \/ ForFreq \/ GenConseqs

FairSpec == Spec /\ WF_vars(Step)

(***************************************************************************)
(* Other families of inputs.                                               *)
(***************************************************************************)
\* The scenario of the specification, section 8, around its thresholds.
ScenarioBaskets == <<{1, 2, 3}, {1, 2}, {1, 3}, {2, 3}, {1, 2, 3}>>
ScenarioSupp == {<<2, 5>>, <<3, 5>>, <<4, 5>>}
ScenarioConf == {<<1, 2>>, <<3, 4>>, <<1, 1>>}

InitScenario ==
    \E s \in ScenarioSupp, c \in ScenarioConf :
        Construct(ScenarioBaskets, TrueDiv(s[1], s[2]), TrueDiv(c[1], c[2]))

SpecScenario == InitScenario /\ [][Next]_vars

\* Few large baskets over one more item, for itemsets of four items.
WideBaskets ==
    {b \in BasketLists(1..(NItems + 1), MaxBaskets) :
        Len(b) > 0 /\ \A j \in 1..Len(b) : Cardinality(b[j]) >= NItems}

InitWide ==
    \E b \in WideBaskets, s \in {<<1, 2>>, <<1, 1>>}, c \in {<<1, 2>>, <<1, 1>>} :
        Construct(b, TrueDiv(s[1], s[2]), TrueDiv(c[1], c[2]))

SpecWide == InitWide /\ [][Next]_vars

(***************************************************************************)
(* Properties.                                                             *)
(***************************************************************************)
TypeOK ==
    /\ pc \in {"idle", "gen_cands", "gen_freqs", "for_level", "for_freq",
               "gen_conseqs", "done", "fault"}
    /\ fault \in {"none", "KeyError", "ZeroDivisionError"}
    /\ (pc = "fault") = (fault # "none")

FOne == FromInt(1)
InUnit(t) == ~IsZero(t) /\ FGe(FOne, t)
ValidConfig == n_baskets > 0 /\ InUnit(min_supp) /\ InUnit(min_conf)

\* The reference scan: the baskets that contain the itemset.
BruteCount(I) == Cardinality({n \in 1..Len(baskets) : I \subseteq baskets[n]})
BruteSupport(I) == TrueDiv(BruteCount(I), Len(baskets))
AllItemsets == (SUBSET UNION {baskets[n] : n \in 1..Len(baskets)}) \ {{}}
BruteFrequent == {I \in AllItemsets : FGe(BruteSupport(I), min_supp)}

Levels(list) == UNION {list[n] : n \in 1..Len(list)}
RulePairs == {<<r.ante, r.conseq>> : r \in BagToSet(rule_list)}

\* C1: every recorded support is the number of baskets containing the
\* itemset, by a scan of all baskets, divided by the number of baskets.
SupportCorrect ==
    n_baskets > 0 =>
        \A I \in DOMAIN supp_dict : supp_dict[I] = BruteSupport(I)

SupportCorrectWitness ==
    /\ pc = "done"
    /\ \E I \in DOMAIN supp_dict :
          /\ Cardinality(I) >= 2 /\ BruteCount(I) < n_baskets
          /\ \E n \in 1..Len(baskets) : baskets[n] = I

\* C2: with 0 < min_supp <= 1, after apriori() the recorded frequent itemsets
\* (the keys of supp_dict, the levels of freq_list) are exactly the non-empty
\* itemsets whose support by the reference scan is at least min_supp.
FrequentExact ==
    (pc = "done" /\ InUnit(min_supp)) =>
        /\ DOMAIN supp_dict = BruteFrequent
        /\ Levels(freq_list) = BruteFrequent

FrequentExactWitness ==
    /\ pc = "done" /\ n_baskets > 0 /\ InUnit(min_supp)
    /\ \E I \in DOMAIN supp_dict : Cardinality(I) >= 2
    /\ \E J \in AllItemsets : Cardinality(J) >= 2 /\ J \notin DOMAIN supp_dict

\* C3: every rule (A, C, conf) of rule_list has A and C disjoint, A union C a
\* key of supp_dict, conf = supp_dict[A union C] / supp_dict[A], and
\* conf >= min_conf.
RuleSound ==
    \A r \in BagToSet(rule_list) :
        /\ r.ante \cap r.conseq = {}
        /\ (r.ante \cup r.conseq) \in DOMAIN supp_dict
        /\ r.ante \in DOMAIN supp_dict
        /\ r.conf = FDiv(supp_dict[r.ante \cup r.conseq], supp_dict[r.ante])
        /\ FGe(r.conf, min_conf)

RuleSoundWitness ==
    /\ pc = "done"
    /\ \E r \in BagToSet(rule_list) : r.conf # FOne
    /\ \E r \in BagToSet(rule_list) : Cardinality(r.conseq) >= 2

\* The reference enumeration of the rules: every recorded itemset F and
\* every non-empty strict subset C of it, with the confidence computed from
\* the recorded supports as check_rule computes it.
BruteRules ==
    {<<FC[1] \ FC[2], FC[2]>> : FC \in
        {FC \in (DOMAIN supp_dict) \X AllItemsets :
            /\ FC[2] \subseteq FC[1] /\ FC[2] # FC[1]
            /\ FGe(FDiv(supp_dict[FC[1]], supp_dict[FC[1] \ FC[2]]), min_conf)}}

\* C4: after apriori() on a non-empty basket list with 0 < min_supp <= 1 the
\* rules emitted are exactly the pairs (F - C, C), F a frequent itemset of
\* two or more items and C a non-empty strict subset, whose confidence
\* supp_dict[F] / supp_dict[F - C] is at least min_conf: joining only the
\* kept consequences drops no such rule.
RuleComplete ==
    (pc = "done" /\ n_baskets > 0 /\ InUnit(min_supp)) => RulePairs = BruteRules

RuleCompleteWitness ==
    /\ pc = "done" /\ n_baskets > 0 /\ InUnit(min_supp)
    /\ \E p \in RulePairs : Cardinality(p[2]) >= 2
    /\ \E I \in DOMAIN supp_dict : \E C \in (SUBSET I) \ {{}, I} :
          <<I \ C, C>> \notin RulePairs

\* C5: with min_supp or min_conf outside (0, 1], or no basket, apriori()
\* fails instead of completing.
InvalidRejected == ~ValidConfig => pc # "done"

ScenarioItemsets == {{1}, {2}, {3}, {1, 2}, {1, 3}, {2, 3}}
ScenarioRules ==
    {[ante |-> {xy[1]}, conseq |-> {xy[2]}, conf |-> TrueDiv(3, 4)] :
        xy \in {xy \in (1..3) \X (1..3) : xy[1] # xy[2]}}

\* C6: both thresholds are inclusive; for the scenario with min_supp = 0.6
\* and min_conf = 0.75 the frequent itemsets are the three items with support
\* 0.8 and the three pairs with support 0.6, {1,2,3} is left out, and the six
\* rules {x} -> {y} are emitted with confidence 0.75.
ScenarioExpected ==
    (/\ baskets = ScenarioBaskets
     /\ min_supp = TrueDiv(3, 5) /\ min_conf = TrueDiv(3, 4)
     /\ pc = "done" /\ calls = 1) =>
        /\ DOMAIN supp_dict = ScenarioItemsets
        /\ \A I \in ScenarioItemsets :
              supp_dict[I] = IF Cardinality(I) = 1 THEN TrueDiv(4, 5) ELSE TrueDiv(3, 5)
        /\ BagToSet(rule_list) = ScenarioRules

\* C7: in the first call with a non-empty basket list and 0 < min_supp <= 1,
\* every consequence handed to check_rule is a non-empty strict subset of
\* the itemset, the antecedent's support is recorded and is not zero, and no
\* call raises.
CheckRuleSafe ==
    (calls = 1 /\ n_baskets > 0 /\ InUnit(min_supp)) =>
        /\ fault = "none"
        /\ pc = "gen_conseqs" =>
              \A c \in DOMAIN conseq_cands(freq, k) :
                  /\ c # {} /\ c \subseteq freq /\ c # freq
                  /\ (freq \ c) \in DOMAIN supp_dict
                  /\ ~IsZero(supp_dict[freq \ c])

CheckRuleSafeWitness ==
    /\ calls = 1 /\ n_baskets > 0 /\ InUnit(min_supp)
    /\ pc = "gen_conseqs" /\ k >= 1
    /\ DOMAIN conseq_cands(freq, k) # {}

\* C8: after a single call no rule is in rule_list twice and no consequence
\* is twice in a level of conseq_dict.
NoDuplicates ==
    (calls <= 1 /\ ValidConfig) =>
        /\ \A r \in DOMAIN rule_list : rule_list[r] = 1
        /\ \A F \in DOMAIN conseq_dict : \A n \in 1..Len(conseq_dict[F]) :
              \A c \in DOMAIN conseq_dict[F][n] : conseq_dict[F][n][c] = 1

Running == pc \in {"gen_cands", "gen_freqs", "for_level", "for_freq", "gen_conseqs"}
Terminated == pc \in {"done", "fault"}

\* C9: every call of apriori() ends; in the first call the search for
\* frequent itemsets ends as soon as gen_cands adds no candidates or
\* gen_freqs keeps none, the search for the consequences of an itemset of m
\* items runs at most m - 1 levels, and it ends when a level keeps none.
Termination ==
    /\ Running ~> Terminated
    /\ [][(pc = "gen_cands" /\ calls = 1 /\ cand_list' = cand_list)
             => pc' = "for_level"]_vars
    /\ [][(pc = "gen_freqs" /\ calls = 1 /\ freq_list' = freq_list)
             => pc' \in {"for_level", "fault"}]_vars
    /\ [](pc = "gen_conseqs" /\ calls = 1 => k + 1 <= Cardinality(freq) - 1)
    /\ [][(pc = "gen_conseqs" /\ conseq_dict'[freq] = conseq_dict[freq])
             => pc' \in {"for_freq", "fault"}]_vars

TerminationWitness ==
    /\ pc = "gen_conseqs" /\ calls = 1 /\ k >= 1 /\ Cardinality(freq) >= 3

\* C10: a second call on the same object raises nothing and leaves the
\* frequent itemsets, their supports and the rules as the first call left
\* them, adding no rule a second time.
Reinvocation ==
    /\ []((calls >= 2 /\ ValidConfig) => fault = "none")
    /\ [][(calls >= 2 /\ ValidConfig)
             => (supp_dict' = supp_dict /\ rule_list' = rule_list)]_vars

=============================================================================
